---- MODULE Spec2Model ----
(***************************************************************************)
(* Model of zephyr.stream.Stream (src/zephyr/stream/stream.py).            *)
(*                                                                         *)
(* Two units of execution share one ordered channel (mp.Pipe):             *)
(*   - the caller, running send() and end();                               *)
(*   - the worker process, running the @retry-decorated _update(), which   *)
(*     owns the encoder subprocess (sp.Popen) and writes to its stdin.     *)
(* The encoder subprocess itself is the environment: its stdin may break   *)
(* and it may die at any moment.                                           *)
(*                                                                         *)
(* Worker positions: "starting" (entry of _update, before Popen),          *)
(* "streaming" (blocked in recv), "recovering" (inside time.sleep in the   *)
(* except branch), "done" (_update returned, worker process exited).       *)
(*                                                                         *)
(* pipe.stdin is modelled unbuffered: a write either reaches the encoder   *)
(* or raises.  The caller may also put None on the channel through the     *)
(* parent_connection attribute, and may call end() again once it returned. *)
(***************************************************************************)
EXTENDS Integers, Sequences, FiniteSets, TLC

\* ---------------------------------------------------------------- bounds
MaxSends == 3
MaxDim == 1
MaxWait == 1
MaxLaunchFails == 1

\* ------------------------------------------------------------ numpy arrays
\* An array is its shape, its flattened elements and its element width in
\* bytes (uint8 frames: 1, the default integer of np.array([0]): 8).
RECURSIVE Prod(_)
Prod(shape) == IF shape = <<>> THEN 1 ELSE Head(shape) * Prod(Tail(shape))

Fill(shape, v, width) ==
    [shape |-> shape, data |-> [i \in 1..Prod(shape) |-> v], itemsize |-> width]

\* Python's None travelling through the channel.
None == [shape |-> <<0>>, data |-> <<>>, itemsize |-> 0]

CLOSE_REQUEST == Fill(<<1>>, 0, 8)

RECURSIVE LEBytes(_, _)
LEBytes(x, width) ==
    IF width = 0 THEN <<>> ELSE <<x % 256>> \o LEBytes(x \div 256, width - 1)

RECURSIVE FlattenBytes(_, _)
FlattenBytes(data, width) ==
    IF data = <<>> THEN <<>>
    ELSE LEBytes(Head(data), width) \o FlattenBytes(Tail(data), width)

tobytes(arr) == FlattenBytes(arr.data, arr.itemsize)

\* a comparison of the elements that ignores the shape
array_equal_flat(a1, a2) == a1.data = a2.data

array_equal(a1, a2) == a1.shape = a2.shape /\ a1.data = a2.data

\* cv2.resize of a uniformly coloured image: the colour at the target size,
\* rows first, with the channels of the input (none for a grayscale image).
resize(img, res) ==
    Fill(<<res[2], res[1]>> \o SubSeq(img.shape, 3, Len(img.shape)), img.data[1], 1)

\* Frames handed to send(), of any size: white BGR images, and black grayscale
\* images, whose elements are those of the close request. Streams of one row.
Dims == 1..MaxDim
InputFrames ==
    {Fill(<<h, w, 3>>, 255, 1) : h \in Dims, w \in Dims}
        \cup {Fill(<<h, w>>, 0, 1) : h \in Dims, w \in Dims}
Resolutions == {<<w, 1>> : w \in Dims}

\* Channel items carry the array and its position in the caller's sequence of
\* send() calls (0 for the close request), which the program does not see.
CloseId == 0
NoItem == [id |-> -1, arr |-> None]
\* a None put on the channel
NoneItem == [id |-> -2, arr |-> None]

VARIABLES
    resolution, wait,         \* Stream.__init__ parameters
    chan,                     \* mp.Pipe: items sent and not yet received
    puts,                     \* parent_connection.send calls made so far
    callerPc,                 \* "running", "joining" (inside end()), "returned"
    sendlog,                  \* per send() call: was the worker waiting to
                              \* recover, which encoder instance was dead (0: none)
    pc,                       \* worker position
    pipe,                     \* _update's local: the Popen it launched (0: unbound)
    frame, last_frame,        \* _update's locals
    launches,                 \* Popen calls that succeeded
    launchFails,              \* Popen calls that raised since the last success
    alive,                    \* encoder subprocess instances still running
    broken,                   \* stdin of the current instance is closed
    slept,                    \* time spent in the pending time.sleep(self.wait)
    written,                  \* writes that reached an encoder's stdin
    failed                    \* ids of the items whose write raised

vars == <<resolution, wait, chan, puts, callerPc, sendlog, pc, pipe, frame, last_frame,
          launches, launchFails, alive, broken, slept, written, failed>>

callerVars == <<callerPc, sendlog>>
workerVars == <<pc, pipe, frame, last_frame, launches, launchFails, slept>>
configVars == <<resolution, wait>>

Init ==
    /\ resolution \in Resolutions
    /\ wait \in 0..MaxWait
    /\ chan = <<>>
    /\ puts = 0
    /\ callerPc = "running"
    /\ sendlog = <<>>
    /\ pc = "starting"
    /\ pipe = 0
    /\ frame = NoItem
    /\ last_frame = NoItem
    /\ launches = 0
    /\ launchFails = 0
    /\ alive = {}
    /\ broken = FALSE
    /\ slept = 0
    /\ written = <<>>
    /\ failed = <<>>

\* ------------------------------------------------------------------ caller
\* a channel that hands over the newest item first
EnqueueFront(ch, item) == <<item>> \o ch

Enqueue(ch, item) == Append(ch, item)

\* a send() that reports the encoder's failures to the caller
SendWhenHealthy ==
    /\ callerPc # "joining"
    /\ puts < MaxSends
    /\ pc = "streaming" /\ pipe \in alive
    /\ puts' = puts + 1
    /\ \E img \in InputFrames :
          chan' = Append(chan, [id |-> Len(sendlog) + 1,
                                arr |-> resize(img, resolution)])
    /\ sendlog' = Append(sendlog, [wait |-> FALSE, dead |-> 0])
    /\ UNCHANGED <<callerPc, workerVars, configVars, alive, broken, written, failed>>

\* send(frame)
Send ==
    /\ callerPc # "joining"
    /\ puts < MaxSends
    /\ puts' = puts + 1
    /\ \E img \in InputFrames :
          chan' = Enqueue(chan, [id |-> Len(sendlog) + 1,
                                 arr |-> resize(img, resolution)])
    /\ sendlog' = Append(sendlog, [wait |-> pc = "recovering",
                                   dead |-> IF launches \in alive THEN 0 ELSE launches])
    /\ UNCHANGED <<callerPc, workerVars, configVars, alive, broken, written, failed>>

\* parent_connection.send(None): an empty item, which send() cannot produce
PutNone ==
    /\ callerPc # "joining"
    /\ puts < MaxSends
    /\ puts' = puts + 1
    /\ chan' = Enqueue(chan, NoneItem)
    /\ UNCHANGED <<callerVars, workerVars, configVars, alive, broken, written, failed>>

\* an end() that starts the worker again when called a second time
EndSendRespawns ==
    /\ callerPc \in {"running", "returned"}
    /\ puts < MaxSends
    /\ puts' = puts + 1
    /\ chan' = Append(chan, [id |-> CloseId, arr |-> CLOSE_REQUEST])
    /\ callerPc' = "joining"
    /\ pc' = IF callerPc = "returned" THEN "starting" ELSE pc
    /\ UNCHANGED <<sendlog, pipe, frame, last_frame, launches, launchFails, slept,
                   configVars, alive, broken, written, failed>>

\* end(), first statement; end() may be called again once it has returned
EndSend ==
    /\ callerPc \in {"running", "returned"}
    /\ puts < MaxSends
    /\ puts' = puts + 1
    /\ chan' = Enqueue(chan, [id |-> CloseId, arr |-> CLOSE_REQUEST])
    /\ callerPc' = "joining"
    /\ UNCHANGED <<sendlog, workerVars, configVars, alive, broken, written, failed>>

\* a join that does not wait for the worker
JoinedAlways(p) == TRUE

Joined(p) == p = "done"

\* end(), process.join() returns
EndJoin ==
    /\ callerPc = "joining"
    /\ Joined(pc)
    /\ callerPc' = "returned"
    /\ UNCHANGED <<chan, puts, sendlog, workerVars, configVars, alive, broken, written, failed>>

\* ------------------------------------------------------------------ worker
\* _update entry: sp.Popen succeeds
Launch ==
    /\ pc = "starting"
    /\ launches' = launches + 1
    /\ pipe' = launches + 1
    /\ alive' = alive \cup {launches + 1}
    /\ broken' = FALSE
    /\ pc' = "streaming"
    /\ launchFails' = 0
    /\ slept' = 0
    /\ UNCHANGED <<chan, puts, callerVars, configVars, frame, last_frame, written, failed>>

\* a worker that receives before it launches
LaunchFailDrains ==
    /\ pc = "starting"
    /\ launchFails < MaxLaunchFails
    /\ launchFails' = launchFails + 1
    /\ chan' = IF chan = <<>> THEN chan ELSE Tail(chan)
    /\ UNCHANGED <<puts, callerVars, configVars, pc, pipe, frame, last_frame,
                   launches, alive, broken, slept, written, failed>>

\* _update entry: sp.Popen raises, @retry calls _update again at once
LaunchFail ==
    /\ pc = "starting"
    /\ launchFails < MaxLaunchFails
    /\ launchFails' = launchFails + 1
    /\ UNCHANGED <<chan, puts, callerVars, configVars, pc, pipe, frame, last_frame,
                   launches, alive, broken, slept, written, failed>>

\* a write that never reports a closed stdin
WriteNeverRaises(fr, brk) == FALSE

WriteRaises(fr, brk) == fr.arr = None \/ brk

\* an except branch without pipe.terminate()
TerminateNoop(al, p) == al

Terminate(al, p) == al \ {p}

IsCloseRequest(fr) == array_equal(fr.arr, CLOSE_REQUEST)

\* one iteration of the while loop: recv, substitution, write, close check
Iterate ==
    /\ pc = "streaming"
    /\ chan # <<>>
    /\ LET recvd == Head(chan)
           last  == recvd
           fr    == IF recvd.arr = None THEN last ELSE recvd
       IN  /\ chan' = Tail(chan)
           /\ frame' = fr
           /\ last_frame' = last
           /\ IF WriteRaises(fr, broken)
              THEN /\ failed' = Append(failed, fr.id)
                   /\ alive' = Terminate(alive, pipe)
                   /\ slept' = 0
                   /\ pc' = "recovering"
                   /\ UNCHANGED written
              ELSE /\ written' = Append(written, [inst |-> pipe, id |-> fr.id,
                                                  bytes |-> tobytes(fr.arr)])
                   /\ pc' = IF IsCloseRequest(fr) THEN "done" ELSE "streaming"
                   /\ UNCHANGED <<failed, alive, slept>>
    /\ UNCHANGED <<puts, callerVars, configVars, pipe, launches, launchFails, broken>>

\* time passes inside time.sleep(self.wait), which may oversleep
Tick ==
    /\ pc = "recovering"
    /\ slept <= wait
    /\ slept' = slept + 1
    /\ UNCHANGED <<chan, puts, callerVars, configVars, pc, pipe, frame, last_frame,
                   launches, launchFails, alive, broken, written, failed>>

\* a raise that does not wait for the sleep
SleepOverEarly(s, w) == TRUE

SleepOver(s, w) == s >= w

\* a recovery that discards what was queued while it waited
RetryDropsQueued ==
    /\ pc = "recovering"
    /\ SleepOver(slept, wait)
    /\ pc' = "starting"
    /\ pipe' = 0
    /\ frame' = NoItem
    /\ last_frame' = NoItem
    /\ chan' = <<>>
    /\ UNCHANGED <<puts, callerVars, configVars, launches, launchFails, alive,
                   broken, slept, written, failed>>

\* a recovery that hands the failed item to the next subprocess
RetryReplays ==
    /\ pc = "recovering"
    /\ SleepOver(slept, wait)
    /\ pc' = "starting"
    /\ pipe' = 0
    /\ frame' = NoItem
    /\ last_frame' = NoItem
    /\ chan' = <<frame>> \o chan
    /\ UNCHANGED <<puts, callerVars, configVars, launches, launchFails, alive,
                   broken, slept, written, failed>>

\* a retry that stops after its second attempt
RetryGivesUp ==
    /\ pc = "recovering"
    /\ SleepOver(slept, wait)
    /\ pc' = IF Len(failed) >= 2 THEN "done" ELSE "starting"
    /\ pipe' = 0
    /\ frame' = NoItem
    /\ last_frame' = NoItem
    /\ UNCHANGED <<chan, puts, callerVars, configVars, launches, launchFails, alive,
                   broken, slept, written, failed>>

\* a worker that loses a queued item on each recovery
RetryLosesNext ==
    /\ pc = "recovering"
    /\ SleepOver(slept, wait)
    /\ pc' = "starting"
    /\ pipe' = 0
    /\ frame' = NoItem
    /\ last_frame' = NoItem
    /\ chan' = IF chan = <<>> THEN chan ELSE Tail(chan)
    /\ UNCHANGED <<puts, callerVars, configVars, launches, launchFails, alive,
                   broken, slept, written, failed>>

\* time.sleep returns, raise e, @retry calls _update again
Retry ==
    /\ pc = "recovering"
    /\ SleepOver(slept, wait)
    /\ pc' = "starting"
    /\ pipe' = 0
    /\ frame' = NoItem
    /\ last_frame' = NoItem
    /\ UNCHANGED <<chan, puts, callerVars, configVars, launches, launchFails, alive,
                   broken, slept, written, failed>>

\* ------------------------------------------------------------- environment
\* The current encoder instance closes its stdin, and possibly dies.
EncoderFault ==
    /\ pipe # 0
    /\ pipe \in alive
    /\ \E dies \in BOOLEAN :
          /\ dies \/ ~broken
          /\ alive' = IF dies THEN alive \ {pipe} ELSE alive
    /\ broken' = TRUE
    /\ UNCHANGED <<chan, puts, callerVars, workerVars, configVars, written, failed>>

Next ==
    \/ Send
    \/ PutNone
    \/ EndSend
    \/ EndJoin
    \/ Launch
    \/ LaunchFail
    \/ Iterate
    \/ Tick
    \/ Retry
    \/ EncoderFault

Spec == Init /\ [][Next]_vars

\* The operating system schedules the worker and the caller; the encoder is
\* under no obligation to fail.
FairSpec ==
    /\ Spec
    /\ WF_vars(Launch)
    /\ WF_vars(Iterate)
    /\ WF_vars(Tick)
    /\ WF_vars(Retry)
    /\ WF_vars(EndJoin)

TypeOK ==
    /\ pc \in {"starting", "streaming", "recovering", "done"}
    /\ callerPc \in {"running", "joining", "returned"}
    /\ alive \subseteq 1..launches
    /\ pipe \in {0, launches}
    /\ slept \in 0..(MaxWait + 1)
    /\ Len(sendlog) <= puts
    /\ puts \in 0..MaxSends

\* ------------------------------------------------------- derived quantities
InChan(i) == \E k \in 1..Len(chan) : chan[k].id = i
WritesOf(i) == {k \in 1..Len(written) : written[k].id = i}
Failed(i) == \E k \in 1..Len(failed) : failed[k] = i
CloseReceived == WritesOf(CloseId) # {} \/ Failed(CloseId)
Sent == 1..Len(sendlog)
Occurrences(i) ==
    Cardinality({k \in 1..Len(chan) : chan[k].id = i})
        + Cardinality(WritesOf(i))
        + Cardinality({k \in 1..Len(failed) : failed[k] = i})
Lost == {i \in Sent : ~InChan(i) /\ WritesOf(i) = {}}
FrameWrites == SelectSeq(written, LAMBDA w : w.id > CloseId)

RECURSIVE StdinBytes(_, _)
StdinBytes(ws, inst) ==
    IF ws = <<>> THEN <<>>
    ELSE (IF Head(ws).inst = inst THEN Head(ws).bytes ELSE <<>>)
         \o StdinBytes(Tail(ws), inst)

IsPrefix(s, t) == Len(s) <= Len(t) /\ SubSeq(t, 1, Len(s)) = s

\* ------------------------------------------------------------------ claims

\* C1: once end() has been called it eventually returns, whatever writes fail.
C1_EndReturns == (callerPc = "joining") ~> (callerPc = "returned")

\* C2: the frames that reach an encoder's stdin, over all subprocess
\* instances, are in the order of their send() calls, none of them twice.
C2_OrderPreserved ==
    \A i, j \in 1..Len(written) :
        (i < j /\ written[i].id # CloseId /\ written[j].id # CloseId)
            => written[i].id < written[j].id

C2_Witness ==
    \E i, j \in 1..Len(written) :
        /\ i < j
        /\ written[i].id # CloseId /\ written[j].id # CloseId
        /\ written[i].inst # written[j].inst
        /\ failed # <<>>

\* C3: after n frames and end() with no write failure, the only encoder has
\* received the n frame payloads and nothing else; the close request's bytes
\* are never written.
C3_OnlyFramesWritten ==
    (pc = "done" /\ failed = <<>>)
        => /\ WritesOf(CloseId) = {}
           /\ StdinBytes(written, 1) = StdinBytes(FrameWrites, 1)
           /\ {FrameWrites[k].id : k \in 1..Len(FrameWrites)}
                 = {i \in Sent : ~InChan(i)}

\* C4: once the worker has received the close request it is in its terminal
\* state: it is neither recovering nor launching another subprocess.
C4_CloseIsTerminal == CloseReceived => pc = "done"

\* C5: a subprocess launched after a write failure is launched only when the
\* failed one has been terminated and the whole wait has passed since the
\* failure.
C5_RelaunchAfterWait ==
    [][(launches' # launches /\ failed # <<>>)
          => (alive = {} /\ slept >= wait)]_vars

C5_Witness ==
    /\ failed # <<>>
    /\ launches >= 2
    /\ wait >= 1
    /\ pc = "streaming"
    /\ launches \in alive

\* C6: at most one encoder subprocess is alive, it is the one launched last,
\* and a write reaches only that subprocess.
C6_SingleEncoder ==
    [][/\ Cardinality(alive') <= 1
       /\ alive' \subseteq {launches'}
       /\ (written' # written
             => /\ Len(written') = Len(written) + 1
                /\ SubSeq(written', 1, Len(written)) = written
                /\ written'[Len(written')].inst = launches
                /\ launches \in alive)]_vars

C6_Witness ==
    /\ launches = 2
    /\ alive = {2}
    /\ \E k \in 1..Len(written) : written[k].inst = 1
    /\ \E k \in 1..Len(written) : written[k].inst = 2

\* C7 as stated, in its scenario: frame 1 has been written to the first
\* subprocess, frame 2 is sent after that subprocess crashed; once the worker
\* has taken frame 2 from the channel, frame 2 is written to a subprocess
\* launched after the crash.
C7_DeliveredToRelaunched ==
    (/\ Len(sendlog) >= 2
     /\ \E k \in WritesOf(1) : written[k].inst = 1
     /\ sendlog[2].dead = 1 /\ ~sendlog[2].wait
     /\ ~InChan(2))
        => \E k \in WritesOf(2) : written[k].inst > 1

\* C7 amended: a frame sent after the crash is either the item whose write
\* raises, and then it reaches no subprocess, or it is written once, to a
\* subprocess launched after the crash; no frame is written twice; and in the
\* scenario (frame 1 written, crash, frame 2 sent, no empty item received in
\* between) frame 2 is the one dropped.
C7_DroppedOrRelaunched ==
    /\ \A i \in Sent :
          (sendlog[i].dead > 0 /\ ~InChan(i))
              => IF Failed(i)
                 THEN WritesOf(i) = {}
                 ELSE /\ Cardinality(WritesOf(i)) = 1
                      /\ \A k \in WritesOf(i) : written[k].inst > sendlog[i].dead
    /\ \A i \in Sent : Cardinality(WritesOf(i)) <= 1
    /\ (/\ Len(sendlog) >= 2
        /\ \E k \in WritesOf(1) : written[k].inst = 1
        /\ sendlog[2].dead = 1 /\ ~sendlog[2].wait
        /\ ~InChan(2)
        /\ (failed # <<>> => Head(failed) # NoneItem.id))
           => Failed(2) /\ WritesOf(2) = {}

C7_Witness ==
    /\ Len(sendlog) = 3
    /\ \E k \in WritesOf(1) : written[k].inst = 1
    /\ sendlog[2].dead = 1 /\ ~sendlog[2].wait
    /\ Failed(2)
    /\ sendlog[3].dead = 1
    /\ \E k \in WritesOf(3) : written[k].inst = 2

\* C8 as stated: a frame enqueued while the worker waits in RECOVERING is
\* never written to any encoder subprocess.
C8_WaitWindowDropped ==
    \A i \in Sent : sendlog[i].wait => WritesOf(i) = {}

\* C8 amended: a frame enqueued while the worker waits in RECOVERING is kept:
\* the wait and the relaunch take nothing out of the channel, and the frame is
\* in exactly one place: still queued, written once to a subprocess launched
\* after it was sent, or lost because its own write raised.
C8_WaitWindowKept ==
    /\ [](\A i \in Sent :
            sendlog[i].wait
                => \/ /\ InChan(i) /\ WritesOf(i) = {} /\ ~Failed(i)
                   \/ /\ ~InChan(i) /\ ~Failed(i)
                      /\ Cardinality(WritesOf(i)) = 1
                      /\ \A k \in WritesOf(i) : written[k].inst > sendlog[i].dead
                   \/ /\ ~InChan(i) /\ Failed(i) /\ WritesOf(i) = {})
    /\ [][(pc \in {"recovering", "starting"}) => IsPrefix(chan, chan')]_vars

C8_Witness ==
    \E i \in Sent :
        /\ sendlog[i].wait
        /\ \E k \in WritesOf(i) : written[k].inst = 2

\* C9: when end() has returned the worker has terminated.
C9_ReturnedMeansDone == callerPc = "returned" => pc = "done"

C9_Witness == callerPc = "returned" /\ failed # <<>> /\ launches >= 2

\* C10: when end() has returned no encoder subprocess is alive.
C10_NoEncoderLeft == callerPc = "returned" => alive = {}

\* C11: the worker leaves its loop only on receiving the close request that
\* end() enqueued; no frame of send(), whatever its size and content, is
\* taken for the close request.
C11_CloseNeverConfused ==
    /\ [](\A img \in InputFrames, res \in Resolutions :
             ~array_equal(resize(img, res), CLOSE_REQUEST))
    /\ [][(pc # "done" /\ pc' = "done")
             => (chan # <<>> /\ Head(chan).id = CloseId)]_vars

C11_Witness ==
    /\ pc = "done"
    /\ \E k \in 1..Len(written) :
          written[k].id > CloseId /\ written[k].bytes = <<0>>

\* C12: in every worker state and after any number of write failures, send()
\* is accepted: it enqueues the resized frame and touches nothing of the
\* worker or the encoder.
C12_SendContained ==
    /\ []((callerPc # "joining" /\ puts < MaxSends) => ENABLED Send)
    /\ [][(Len(sendlog') > Len(sendlog))
             => /\ \E img \in InputFrames :
                      chan' = Append(chan, [id |-> Len(sendlog'),
                                            arr |-> resize(img, resolution)])
                /\ UNCHANGED <<pc, alive, broken, written, failed>>]_vars

C12_Witness ==
    /\ Len(failed) >= 2
    /\ \E i \in Sent : sendlog[i].wait /\ InChan(i)

\* C13: once end() has returned, send() accepts no frame.
C13_SendAfterEndRejected ==
    [][(callerPc = "returned") => (Len(sendlog') = Len(sendlog))]_vars

\* C14: on receiving an empty item after a frame, the worker writes that frame
\* again, stays in STREAMING and counts no write failure.
C14_EmptyRepeatsLast ==
    [][(/\ pc = "streaming"
        /\ chan # <<>>
        /\ Head(chan).arr = None
        /\ chan' = Tail(chan)
        /\ frame.arr # None)
          => /\ pc' = "streaming"
             /\ failed' = failed
             /\ written' = Append(written, [inst |-> pipe, id |-> frame.id,
                                            bytes |-> tobytes(frame.arr)])]_vars

\* C15: retry has no limit: whatever the number of failures so far, a
\* recovering worker that has not received the close request launches a
\* subprocess and blocks in recv again; the worker ends only from its loop,
\* never from the except branch.
C15_RetryUnbounded ==
    /\ (pc = "recovering" /\ ~CloseReceived) ~> (pc = "streaming")
    /\ [][(pc # "done" /\ pc' = "done") => (pc = "streaming" /\ failed' = failed)]_vars

C15_Witness ==
    /\ Len(failed) >= 2
    /\ written = <<>>
    /\ ~CloseReceived
    /\ launches >= 3
    /\ pc = "streaming"

\* C16: a frame whose write raised is gone: it is neither queued again nor
\* written to the relaunched or any later subprocess.
C16_FailedFrameLost ==
    \A i \in Sent : Failed(i) => (Occurrences(i) = 1 /\ i \in Lost)

C16_Witness ==
    \E i \in Sent :
        /\ Failed(i)
        /\ \E k \in 1..Len(written) : written[k].inst >= 2 /\ written[k].id > i

\* C17: a second end(), called after the first has returned, returns without
\* blocking and changes neither the worker nor the encoder.
C17_SecondEndHarmless ==
    /\ []((callerPc = "joining" /\ Occurrences(CloseId) >= 2)
             => (pc = "done" /\ ENABLED EndJoin))
    /\ [][(\/ (callerPc = "returned" /\ callerPc' = "joining")
            \/ (Occurrences(CloseId) >= 2 /\ callerPc' # callerPc))
             => UNCHANGED <<workerVars, alive, broken, written, failed>>]_vars

C17_Witness == callerPc = "returned" /\ Occurrences(CloseId) >= 2

\* C18: every frame accepted by send() is in exactly one place: queued,
\* written once, or lost by a write that raised; so no more frames are lost
\* than writes have failed.
C18_FrameConservation ==
    /\ \A i \in Sent : Occurrences(i) = 1
    /\ Cardinality(Lost) <= Len(failed)

C18_Witness ==
    \E i, j, k \in Sent : InChan(i) /\ WritesOf(j) # {} /\ Failed(k)

\* C19: a launch that fails takes nothing from the channel: from the failed
\* launch until a launch succeeds, what was queued stays queued, in order.
C19_LaunchFailKeepsQueue ==
    [][(pc = "starting")
          => /\ IsPrefix(chan, chan')
             /\ (launchFails' > launchFails
                   => /\ chan' = chan
                      /\ pc' = "starting"
                      /\ UNCHANGED <<written, failed, alive>>)]_vars

C19_Witness ==
    /\ pc = "starting"
    /\ launchFails >= 1
    /\ \E i \in Sent : InChan(i)
    /\ InChan(CloseId)
====
